---- MODULE Spec2Model ----
(***************************************************************************)
(* Model of sftp-watcher (src/main.py): a watcher that uploads watched     *)
(* files to an FTP or SFTP server whenever they are modified or created.   *)
(*                                                                         *)
(* A Python string is a sequence of tokens.  The token "/" is the path     *)
(* separator; every other token is an opaque run of characters that holds  *)
(* no "/" ("www", "a.css", ".", "..").  All the string operations of the   *)
(* program cut strings at "/" only, so the token level is exact for them.  *)
(* A remote location is the sequence of the directory names leading to it  *)
(* from the server's root.                                                 *)
(***************************************************************************)
EXTENDS Integers, Sequences, FiniteSets, TLC

(***************************************************************************)
(* Bounds of the model.                                                    *)
(***************************************************************************)
MaxTasks == 2
MaxFaults == 1

(***************************************************************************)
(* String and path helpers, as Python computes them on a POSIX host.       *)
(***************************************************************************)
RECURSIVE rstrip(_)
rstrip(s) ==
  IF Len(s) > 0 /\ s[Len(s)] = "/" THEN rstrip(SubSeq(s, 1, Len(s) - 1)) ELSE s

RECURSIVE lstrip(_)
lstrip(s) ==
  IF Len(s) > 0 /\ s[1] = "/" THEN lstrip(SubSeq(s, 2, Len(s))) ELSE s

strip(s) == lstrip(rstrip(s))

startswith(s, p) == Len(s) >= Len(p) /\ SubSeq(s, 1, Len(p)) = p

endswith(s, p) == Len(s) >= Len(p) /\ SubSeq(s, Len(s) - Len(p) + 1, Len(s)) = p

replace(s, old, new) == [i \in 1..Len(s) |-> IF s[i] = old THEN new ELSE s[i]]

\* index of the last "/" of s, 0 when there is none (str.rfind + 1)
rfind1(s) ==
  IF \E i \in 1..Len(s) : s[i] = "/"
  THEN CHOOSE i \in 1..Len(s) : s[i] = "/" /\ \A j \in (i + 1)..Len(s) : s[j] # "/"
  ELSE 0

RECURSIVE split(_)
split(s) ==
  IF \A i \in 1..Len(s) : s[i] # "/" THEN <<s>>
  ELSE LET k == CHOOSE i \in 1..Len(s) :
                  s[i] = "/" /\ \A j \in 1..(i - 1) : s[j] # "/"
       IN  <<SubSeq(s, 1, k - 1)>> \o split(SubSeq(s, k + 1, Len(s)))

\* [p for p in <list> if p]
nonempty(l) == SelectSeq(l, LAMBDA p : p # <<>>)

\* [p for p in s.strip("/").split("/") if p]
parts_of(s) == nonempty(split(strip(s)))

RECURSIVE str_join(_)
str_join(l) ==
  IF Len(l) = 0 THEN <<>>
  ELSE IF Len(l) = 1 THEN l[1]
  ELSE l[1] \o <<"/">> \o str_join(Tail(l))

dirname(p) ==
  LET head == SubSeq(p, 1, rfind1(p))
  IN  IF head # <<>> /\ \E i \in 1..Len(head) : head[i] # "/"
      THEN rstrip(head) ELSE head

basename(p) == SubSeq(p, rfind1(p) + 1, Len(p))

os_path_join(a, b) ==
  IF startswith(b, <<"/">>) THEN b
  ELSE IF a = <<>> \/ endswith(a, <<"/">>) THEN a \o b
  ELSE a \o <<"/">> \o b

RECURSIVE norm_comps(_, _, _)
norm_comps(comps, new_comps, initial_slashes) ==
  IF Len(comps) = 0 THEN new_comps
  ELSE LET comp == comps[1]
           n    == Len(new_comps)
       IN  IF comp = <<>> \/ comp = <<".">>
           THEN norm_comps(Tail(comps), new_comps, initial_slashes)
           ELSE IF \/ comp # <<"..">>
                   \/ (initial_slashes = 0 /\ n = 0)
                   \/ (n > 0 /\ new_comps[n] = <<"..">>)
           THEN norm_comps(Tail(comps), Append(new_comps, comp), initial_slashes)
           ELSE IF n > 0
           THEN norm_comps(Tail(comps), SubSeq(new_comps, 1, n - 1), initial_slashes)
           ELSE norm_comps(Tail(comps), new_comps, initial_slashes)

normpath(path) ==
  IF path = <<>> THEN <<".">>
  ELSE LET initial_slashes ==
             IF ~startswith(path, <<"/">>) THEN 0
             ELSE IF startswith(path, <<"/", "/">>) /\ ~startswith(path, <<"/", "/", "/">>)
             THEN 2 ELSE 1
           comps == norm_comps(split(path), <<>>, initial_slashes)
           p == [i \in 1..initial_slashes |-> "/"] \o str_join(comps)
       IN  IF p = <<>> THEN <<".">> ELSE p

\* working directory of the watcher process (os.getcwd())
getcwd == <<"/", "cwd">>

abspath(path) ==
  normpath(IF startswith(path, <<"/">>) THEN path ELSE os_path_join(getcwd, path))

RECURSIVE commonprefix_len(_, _)
commonprefix_len(a, b) ==
  IF Len(a) > 0 /\ Len(b) > 0 /\ a[1] = b[1]
  THEN 1 + commonprefix_len(Tail(a), Tail(b)) ELSE 0

relpath(path, start) ==
  LET start_list == nonempty(split(abspath(start)))
      path_list  == nonempty(split(abspath(path)))
      i          == commonprefix_len(start_list, path_list)
      rel_list   == [k \in 1..(Len(start_list) - i) |-> <<"..">>]
                      \o SubSeq(path_list, i + 1, Len(path_list))
  IN  IF Len(rel_list) = 0 THEN <<".">> ELSE str_join(rel_list)

\* str(pathlib.Path(p).parent)
path_parent(p) ==
  LET root == IF ~startswith(p, <<"/">>) THEN <<>>
              ELSE IF startswith(p, <<"/", "/">>) /\ ~startswith(p, <<"/", "/", "/">>)
              THEN <<"/", "/">> ELSE <<"/">>
      parts == SelectSeq(split(p), LAMBDA c : c # <<>> /\ c # <<".">>)
      up    == IF Len(parts) = 0 THEN parts ELSE SubSeq(parts, 1, Len(parts) - 1)
      s     == root \o str_join(up)
  IN  IF s = <<>> THEN <<".">> ELSE s

(***************************************************************************)
(* The remote server.  A directory or a file is named by the sequence of   *)
(* names leading to it from the server's root; <<>> is "/".                 *)
(***************************************************************************)
\* the location a path string names for a session whose base directory is base
resolve(s, base) == IF startswith(s, <<"/">>) THEN parts_of(s) ELSE base \o parts_of(s)

parent_of(loc) == SubSeq(loc, 1, Len(loc) - 1)

is_dir(r, loc) == loc \in r.dirs

is_file(r, loc) == \E f \in r.files : f.at = loc

exists(r, loc) == is_dir(r, loc) \/ is_file(r, loc)

\* MKD / SFTP mkdir: refused when the name is taken or its parent is no directory
can_mkdir(r, loc) == ~exists(r, loc) /\ is_dir(r, parent_of(loc))

\* the server's answer to a request to create loc
mkdir_answer(r, loc, fault) ==
  IF fault THEN "denied"
  ELSE IF is_dir(r, loc) THEN "exists"
  ELSE IF is_file(r, loc) THEN "file"
  ELSE IF ~is_dir(r, parent_of(loc)) THEN "noparent"
  ELSE "ok"

make_dir(r, loc) == [r EXCEPT !.dirs = @ \cup {loc}]

\* STOR / SFTP put: refused when the target is a directory or its parent is none
can_store(r, loc) == ~is_dir(r, loc) /\ is_dir(r, parent_of(loc))

\* the server's answer to a request to store a file at loc
store_answer(r, loc, fault) ==
  IF fault THEN "denied"
  ELSE IF is_dir(r, loc) THEN "isdir"
  ELSE IF ~is_dir(r, parent_of(loc)) THEN "noparent"
  ELSE "ok"

\* the stored file replaces what was there: the last writer wins
store(r, loc, data) ==
  [r EXCEPT !.files = {f \in @ : f.at # loc} \cup {[at |-> loc, data |-> data]}]

(***************************************************************************)
(* State.                                                                  *)
(***************************************************************************)
VARIABLES
  argv,        \* [project_root, files]: sys.argv[1] and sys.argv[2:]
  sftp_json,   \* the contents of <project_root>/.vscode/sftp.json
  cfg,         \* the configuration load_ftp_config returned
  mainPc,      \* "start" before main has built the watchers, then "watching"
  handlers,    \* the MultiFileHandler objects, one per watched directory
  localFiles,  \* the local files that exist
  home,        \* the directory in which the server starts a session
  remote,      \* [dirs, files]: the server's tree
  remote0,     \* history: the server's tree when the watcher was started
  tasks,       \* the upload threads started so far, in start order
  faults,      \* how many operations the environment has made fail
  matched,     \* history: events delivered so far that qualify for an upload
  limit        \* how many upload threads the run is followed for

vars == <<argv, sftp_json, cfg, mainPc, handlers, localFiles, home, remote, remote0,
          tasks, faults, matched, limit>>

(***************************************************************************)
(* main: the watch groups and their handlers.                              *)
(***************************************************************************)
\* load_ftp_config, lines 26-38, for a file that holds the required keys: the
\* optional keys get their defaults
load_ftp_config(json) ==
  [remotePath    |-> json.remotePath,
   protocol      |-> IF "protocol" \notin DOMAIN json THEN "ftp" ELSE json.protocol,
   transferFiles |-> IF "transferFiles" \notin DOMAIN json THEN <<>> ELSE json.transferFiles]

RECURSIVE set_to_list(_)
set_to_list(S) ==
  IF S = {} THEN <<>>
  ELSE LET x == CHOOSE y \in S : TRUE IN <<x>> \o set_to_list(S \ {x})

list_to_set(l) == {l[i] : i \in 1..Len(l)}

\* lines 271-278: the arguments and cfg["transferFiles"], joined to the root, deduplicated
abs_file_paths(project_root, files, c) ==
  set_to_list({os_path_join(project_root, files[i]) : i \in 1..Len(files)}
              \cup {os_path_join(project_root, c.transferFiles[i]) :
                      i \in 1..Len(c.transferFiles)})

\* line 280: the directory a watched path is filed under
file_parent(project_root, x) == path_parent(os_path_join(project_root, x))

\* lines 281-286: the watched paths of each directory, in the order they were met
watcher_map(project_root, paths) ==
  [d \in {file_parent(project_root, paths[i]) : i \in 1..Len(paths)} |->
     SelectSeq(paths, LAMBDA x : file_parent(project_root, x) = d)]

\* mutant of group_cfg: the group's configuration also loses its transferFiles
group_cfg_trimmed(c, watch_d, project_root) ==
  LET rp == relpath(watch_d, project_root)
  IN  IF rp # <<".">>
      THEN [c EXCEPT !.remotePath = os_path_join(c.remotePath, rp), !.transferFiles = <<>>]
      ELSE c

\* mutant of group_cfg: every group keeps the base remote path
group_cfg_unrebased(c, watch_d, project_root) == c

\* lines 291-294: the configuration of the group watching watch_d
group_cfg(c, watch_d, project_root) ==
  LET rp == relpath(watch_d, project_root)
  IN  IF rp # <<".">>
      THEN [c EXCEPT !.remotePath = os_path_join(c.remotePath, rp)]
      ELSE c

\* MultiFileHandler.__init__, and the directory its observer is scheduled on
MultiFileHandler(project_root, target_paths, c) ==
  [project_root |-> abspath(project_root),
   target_paths |-> [i \in 1..Len(target_paths) |-> abspath(target_paths[i])],
   cfg          |-> c,
   watch_dir    |-> dirname(os_path_join(project_root, <<"*">>))]

build_handlers(project_root, files, c) ==
  LET wm == watcher_map(project_root, abs_file_paths(project_root, files, c))
  IN  {MultiFileHandler(watch_d, wm[watch_d], group_cfg(c, watch_d, project_root)) :
         watch_d \in DOMAIN wm}

Main ==
  /\ mainPc = "start"
  /\ handlers' = build_handlers(argv.project_root, argv.files, cfg)
  /\ mainPc' = "watching"
  /\ UNCHANGED <<argv, sftp_json, remote0, cfg, localFiles, home, remote, tasks, faults,
                 matched, limit>>

(***************************************************************************)
(* Upload threads.                                                         *)
(***************************************************************************)
\* threading.Thread(target=upload_file, args=(project_root, rel, cfg)), not yet run
new_thread(project_root, rel, c, via) ==
  [pc |-> "start", via |-> via, project_root |-> project_root,
   rel_file_path |-> rel, cfg |-> c,
   proto |-> "", local_path |-> <<>>, remote_root |-> <<>>, remote_dir |-> <<>>,
   filename |-> <<>>, sub_dir |-> <<>>,
   phase |-> "", parts |-> <<>>, cwd |-> <<>>, path |-> <<>>,
   conn |-> "none", exc |-> "none", result |-> "running", log |-> <<>>,
   calls |-> 0, snap |-> [dirs |-> {}, ops |-> 0]]

\* mutant of maybe_upload: the handler waits for the uploads under way (t.join())
maybe_upload_joined(h, event_path, ts) ==
  LET changed == abspath(event_path)
  IN  IF changed \in list_to_set(h.target_paths) /\ \A i \in DOMAIN ts : ts[i].pc = "done"
      THEN Append(ts, new_thread(h.project_root, relpath(changed, h.project_root),
                                 h.cfg, "handler"))
      ELSE ts

\* MultiFileHandler._maybe_upload
maybe_upload(h, event_path, ts) ==
  LET changed == abspath(event_path)
  IN  IF changed \in list_to_set(h.target_paths)
      THEN Append(ts, new_thread(h.project_root, relpath(changed, h.project_root),
                                 h.cfg, "handler"))
      ELSE ts

\* MultiFileHandler.on_modified
on_modified(h, event, ts) ==
  IF event.is_directory THEN ts ELSE maybe_upload(h, event.src_path, ts)

\* MultiFileHandler.on_created
on_created(h, event, ts) ==
  IF event.is_directory THEN ts ELSE maybe_upload(h, event.src_path, ts)

\* mutant of dispatch: a move is answered like a modification
dispatch_moved(h, event, ts) ==
  IF event.event_type \in {"modified", "moved"} THEN on_modified(h, event, ts)
  ELSE IF event.event_type = "created" THEN on_created(h, event, ts)
  ELSE ts

\* FileSystemEventHandler.dispatch: the two overridden callbacks; the others do nothing
dispatch(h, event, ts) ==
  IF event.event_type = "modified" THEN on_modified(h, event, ts)
  ELSE IF event.event_type = "created" THEN on_created(h, event, ts)
  ELSE ts

EventTypes == {"modified", "created", "deleted", "moved"}

EventNames == {<<"a.js">>, <<"a.css">>, <<"notes.txt">>}

\* what the observer scheduled on h.watch_dir (recursive=False) can deliver to h
events_of(h) ==
  {[event_type |-> ty, is_directory |-> d, src_path |-> os_path_join(h.watch_dir, n)] :
     ty \in EventTypes, d \in BOOLEAN, n \in EventNames}

\* the events the dispatcher is specified to answer with an upload
qualifies(h, event) ==
  /\ event.event_type \in {"modified", "created"}
  /\ ~event.is_directory
  /\ \E i \in 1..Len(h.target_paths) : h.target_paths[i] = abspath(event.src_path)

\* one event, delivered on the observer's thread and handled to the end
FsEvent ==
  /\ mainPc = "watching"
  /\ Len(tasks) < limit
  /\ \E h \in handlers : \E event \in events_of(h) :
       /\ tasks' = dispatch(h, event, tasks)
       /\ matched' = matched + (IF qualifies(h, event) THEN 1 ELSE 0)
  /\ UNCHANGED <<argv, sftp_json, remote0, cfg, mainPc, handlers, localFiles, home, remote,
                 faults, limit>>

\* upload_file called by another caller, with the project root and the loaded configuration
UploadCall ==
  /\ mainPc = "watching"
  /\ Len(tasks) < limit
  /\ \E i \in 1..Len(argv.files) :
       tasks' = Append(tasks, new_thread(argv.project_root, argv.files[i], cfg, "call"))
  /\ UNCHANGED <<argv, sftp_json, remote0, cfg, mainPc, handlers, localFiles, home, remote,
                 faults, matched, limit>>

\* the user deletes a watched file
LocalDelete ==
  /\ mainPc = "watching"
  /\ \E f \in localFiles : localFiles' = localFiles \ {f}
  /\ UNCHANGED <<argv, sftp_json, remote0, cfg, mainPc, handlers, home, remote, tasks,
                 faults, matched, limit>>

(***************************************************************************)
(* upload_file, upload_file_ftp, upload_file_sftp: one remote operation    *)
(* per step.  A thread's pc names the operation it issues next:            *)
(*   start, connect, login, open_sftp, cwd_root, probe, create, enter,     *)
(*   transfer, close, done.                                                *)
(***************************************************************************)
\* res is "ok", or why the server refused: "absent", "exists", "file", "noparent",
\* "isdir", "denied" (a failure of the environment)
logged(t, op, at, res) == [t EXCEPT !.log = Append(@, [op |-> op, at |-> at, res |-> res])]

\* the thread's target returns
thread_return(t, res) == [t EXCEPT !.pc = "done", !.result = res]

\* mutant of thread_raise: the failed upload is started again
thread_raise_retry(t, e) == [t EXCEPT !.pc = "start", !.exc = e]

\* an exception leaves the thread's target: the thread ends, nothing else is told
thread_raise(t, e) == [t EXCEPT !.pc = "done", !.exc = e, !.result = "raised"]

\* an exception inside the try block of an upload: control moves to its finally
try_raise(t, e) ==
  IF t.phase = "call" THEN thread_raise(t, e) ELSE [t EXCEPT !.exc = e, !.pc = "close"]

\* str.lower on the protocol names
lower(p) == IF p = "SFTP" THEN "sftp" ELSE IF p = "FTP" THEN "ftp" ELSE p

\* mutant of protocol_of: the protocol value is compared as it is written
protocol_of_exact(c) ==
  LET protocol == IF "protocol" \in DOMAIN c THEN c.protocol ELSE "ftp"
  IN  IF protocol = "sftp" THEN "sftp" ELSE "ftp"

\* upload_file: which uploader runs
protocol_of(c) ==
  LET protocol == lower(IF "protocol" \in DOMAIN c THEN c.protocol ELSE "ftp")
  IN  IF protocol = "sftp" THEN "sftp" ELSE "ftp"

\* lines 81-92 and 114 (175-186 and 199): the remote directory and file name
translate(project_root0, local_path0, remotePath) ==
  LET project_root   == abspath(project_root0)
      local_path     == abspath(local_path0)
      rel_path       == relpath(local_path, project_root)
      rel_path_posix == replace(rel_path, "\\", "/")
      remote_root    == rstrip(remotePath)
  IN  [local_path  |-> local_path,
       remote_root |-> remote_root,
       remote_dir  |-> IF remote_root # <<>>
                       THEN rstrip(str_join(<<remote_root, dirname(rel_path_posix)>>))
                       ELSE rstrip(dirname(rel_path_posix)),
       filename    |-> basename(rel_path_posix),
       sub_dir     |-> strip(dirname(rel_path_posix))]

\* mutant of upload_begin: the local file is not looked for
upload_begin_unchecked(t, files) ==
  LET local_path == os_path_join(t.project_root, t.rel_file_path)
      tr == translate(t.project_root, local_path, t.cfg.remotePath)
  IN  [t EXCEPT !.proto = protocol_of(t.cfg), !.pc = "connect",
                !.local_path = tr.local_path, !.remote_root = tr.remote_root,
                !.remote_dir = tr.remote_dir, !.filename = tr.filename,
                !.sub_dir = tr.sub_dir]

\* lines 76-94 (170-186): skip a missing local file, else compute the remote names
upload_begin(t, files) ==
  LET local_path == os_path_join(t.project_root, t.rel_file_path)
      tr == translate(t.project_root, local_path, t.cfg.remotePath)
  IN  IF abspath(local_path) \notin files
      THEN thread_return([t EXCEPT !.proto = protocol_of(t.cfg)], "skipped")
      ELSE [t EXCEPT !.proto = protocol_of(t.cfg), !.pc = "connect",
                     !.local_path = tr.local_path, !.remote_root = tr.remote_root,
                     !.remote_dir = tr.remote_dir, !.filename = tr.filename,
                     !.sub_dir = tr.sub_dir]

\* lines 118 / 205-211: the directories are done, the transfer is next
to_transfer(t) == [t EXCEPT !.phase = "transfer", !.parts = <<>>, !.pc = "transfer"]

\* ensure_remote_dirs_ftp / ensure_remote_dirs_sftp up to the first segment:
\* ret is the caller's state when the function returns at once
ensure_enter(t, remote_dir, ph, ret) ==
  IF remote_dir = <<>> \/ remote_dir = <<"/">> \/ parts_of(remote_dir) = <<>>
  THEN ret
  ELSE [t EXCEPT !.phase = ph, !.parts = parts_of(remote_dir), !.path = <<>>,
                 !.pc = "probe"]

\* lines 201-202
full_sub_dir(remote_root, sub_dir) ==
  LET s == strip(remote_root \o <<"/">> \o sub_dir)
  IN  IF ~startswith(s, <<"/">>) THEN <<"/">> \o s ELSE s

\* mutant of sub_step: the sub-directory is not ensured before the transfer
sub_step_skipped(t) == to_transfer(t)

\* lines 114-116 / 199-203
sub_step(t) ==
  IF t.sub_dir # <<>>
  THEN ensure_enter(t, IF t.proto = "sftp" THEN full_sub_dir(t.remote_root, t.sub_dir)
                       ELSE t.sub_dir,
                    "sub", to_transfer(t))
  ELSE to_transfer(t)

\* a direct call of an ensurer returns to its caller
ensure_return(t, r) ==
  [t EXCEPT !.calls = @ + 1, !.pc = "call",
            !.snap = IF t.calls = 0 THEN [dirs |-> r.dirs, ops |-> Len(t.log)] ELSE @]

\* the for loop of an ensurer, after a segment is done
loop_next(t, r) ==
  IF t.parts # <<>> THEN [t EXCEPT !.pc = "probe"]
  ELSE IF t.phase = "root" THEN sub_step(t)
  ELSE IF t.phase = "sub" THEN to_transfer(t)
  ELSE ensure_return(t, r)

\* lines 103-104 / 195-197: the first statement of the try block
after_session(t) ==
  IF t.remote_root = <<>> THEN sub_step(t)
  ELSE IF t.proto = "ftp" THEN [t EXCEPT !.pc = "cwd_root"]
  ELSE ensure_enter(t, t.remote_root, "root", sub_step(t))

\* the operations the environment may still make fail
FaultChoice == IF faults < MaxFaults THEN BOOLEAN ELSE {FALSE}

\* thread i moves to t2, the server to r2; fault tells whether a failure was injected
Step(i, t2, r2, fault) ==
  /\ tasks' = [tasks EXCEPT ![i] = t2]
  /\ remote' = r2
  /\ faults' = faults + (IF fault THEN 1 ELSE 0)
  /\ UNCHANGED <<argv, sftp_json, remote0, cfg, mainPc, handlers, localFiles, home, matched, limit>>

UploadBegin ==
  \E i \in DOMAIN tasks :
    /\ tasks[i].pc = "start"
    /\ Step(i, upload_begin(tasks[i], localFiles), remote, FALSE)

\* ftp.connect (line 48): a refused connection leaves nothing open
ftp_connect(t, fault) ==
  IF fault THEN thread_raise(logged(t, "connect", <<>>, "denied"), "OSError")
  ELSE [logged(t, "connect", <<>>, "ok") EXCEPT !.conn = "open", !.pc = "login"]

FtpConnect ==
  \E i \in DOMAIN tasks : \E fault \in FaultChoice :
    /\ tasks[i].pc = "connect" /\ tasks[i].proto = "ftp"
    /\ Step(i, ftp_connect(tasks[i], fault), remote, fault)

\* ftp.login (line 49): a refusal is raised out of create_ftp_client, before the try
ftp_login(t, fault, h) ==
  IF fault THEN thread_raise(logged(t, "login", <<>>, "denied"), "error_perm")
  ELSE after_session([logged(t, "login", <<>>, "ok") EXCEPT !.cwd = h])

FtpLogin ==
  \E i \in DOMAIN tasks : \E fault \in FaultChoice :
    /\ tasks[i].pc = "login" /\ tasks[i].proto = "ftp"
    /\ Step(i, ftp_login(tasks[i], fault, home), remote, fault)

\* ftp.cwd("/") and root_parts (lines 105-107)
ftp_cwd_root(t, r) ==
  loop_next([logged(t, "cwd_root", <<>>, "ok") EXCEPT
               !.cwd = <<>>, !.phase = "root", !.parts = parts_of(t.remote_root)], r)

FtpCwdRoot ==
  \E i \in DOMAIN tasks :
    /\ tasks[i].pc = "cwd_root" /\ tasks[i].proto = "ftp"
    /\ Step(i, ftp_cwd_root(tasks[i], remote), remote, FALSE)

\* try: ftp.cwd(part) (lines 65-66, 108-109); error_perm leads to the except branch
ftp_probe(t, r) ==
  LET loc == t.cwd \o <<t.parts[1]>>
  IN  IF is_dir(r, loc)
      THEN loop_next([logged(t, "cwd", loc, "ok") EXCEPT !.cwd = loc, !.parts = Tail(@)], r)
      ELSE [logged(t, "cwd", loc, "absent") EXCEPT !.pc = "create"]

FtpProbe ==
  \E i \in DOMAIN tasks :
    /\ tasks[i].pc = "probe" /\ tasks[i].proto = "ftp"
    /\ Step(i, ftp_probe(tasks[i], remote), remote, FALSE)

\* except error_perm: ftp.mkd(part) (lines 68, 111); its own error_perm is not caught
ftp_mkd(t, r, fault) ==
  LET loc == t.cwd \o <<t.parts[1]>>
  IN  IF fault \/ ~can_mkdir(r, loc)
      THEN try_raise(logged(t, "mkd", loc, mkdir_answer(r, loc, fault)), "error_perm")
      ELSE [logged(t, "mkd", loc, "ok") EXCEPT !.pc = "enter"]

ftp_mkd_remote(t, r, fault) ==
  LET loc == t.cwd \o <<t.parts[1]>>
  IN  IF fault \/ ~can_mkdir(r, loc) THEN r ELSE make_dir(r, loc)

FtpMkd ==
  \E i \in DOMAIN tasks : \E fault \in FaultChoice :
    /\ tasks[i].pc = "create" /\ tasks[i].proto = "ftp"
    /\ Step(i, ftp_mkd(tasks[i], remote, fault), ftp_mkd_remote(tasks[i], remote, fault), fault)

\* ftp.cwd(part) after mkd (lines 69, 112)
ftp_enter(t, r) ==
  LET loc == t.cwd \o <<t.parts[1]>>
  IN  IF is_dir(r, loc)
      THEN loop_next([logged(t, "cwd_new", loc, "ok") EXCEPT !.cwd = loc, !.parts = Tail(@)], r)
      ELSE try_raise(logged(t, "cwd_new", loc, "absent"), "error_perm")

FtpEnter ==
  \E i \in DOMAIN tasks :
    /\ tasks[i].pc = "enter" /\ tasks[i].proto = "ftp"
    /\ Step(i, ftp_enter(tasks[i], remote), remote, FALSE)

\* with open(local_path, "rb"): ftp.storbinary("STOR " + filename) (lines 118-119)
ftp_stor(t, r, files, fault) ==
  LET loc == t.cwd \o <<t.filename>>
  IN  IF t.local_path \notin files THEN try_raise(t, "FileNotFoundError")
      ELSE IF fault \/ ~can_store(r, loc)
      THEN try_raise(logged(t, "stor", loc, store_answer(r, loc, fault)), "error_perm")
      ELSE [logged(t, "stor", loc, "ok") EXCEPT !.pc = "close"]

ftp_stor_remote(t, r, files, fault, data) ==
  LET loc == t.cwd \o <<t.filename>>
  IN  IF t.local_path \in files /\ ~fault /\ can_store(r, loc)
      THEN store(r, loc, data) ELSE r

FtpStor ==
  \E i \in DOMAIN tasks : \E fault \in FaultChoice :
    /\ tasks[i].pc = "transfer" /\ tasks[i].proto = "ftp"
    /\ Step(i, ftp_stor(tasks[i], remote, localFiles, fault),
            ftp_stor_remote(tasks[i], remote, localFiles, fault, i),
            fault /\ tasks[i].local_path \in localFiles)

\* finally: the session is closed, then the pending exception, if any, goes on
finally_close(t, op) ==
  LET u == [logged(t, op, <<>>, "ok") EXCEPT !.conn = "closed"]
  IN  IF t.exc = "none" THEN thread_return(u, "ok") ELSE thread_raise(u, t.exc)

\* finally: ftp.quit() (lines 121-122)
FtpQuit ==
  \E i \in DOMAIN tasks :
    /\ tasks[i].pc = "close" /\ tasks[i].proto = "ftp"
    /\ Step(i, finally_close(tasks[i], "quit"), remote, FALSE)

\* ssh.connect (lines 134-142): the connection, then the password authentication;
\* a refused connection leaves nothing open, a refused password an open transport
ssh_connect(t, outcome) ==
  IF outcome = "refused" THEN thread_raise(logged(t, "connect", <<>>, "denied"), "OSError")
  ELSE IF outcome = "auth"
  THEN thread_raise([logged(logged(t, "connect", <<>>, "ok"), "login", <<>>, "denied")
                       EXCEPT !.conn = "open"], "AuthenticationException")
  ELSE [logged(logged(t, "connect", <<>>, "ok"), "login", <<>>, "ok")
          EXCEPT !.conn = "open", !.pc = "open_sftp"]

SshOutcomes == IF faults < MaxFaults THEN {"ok", "refused", "auth"} ELSE {"ok"}

SshConnect ==
  \E i \in DOMAIN tasks : \E outcome \in SshOutcomes :
    /\ tasks[i].pc = "connect" /\ tasks[i].proto = "sftp"
    /\ Step(i, ssh_connect(tasks[i], outcome), remote, outcome # "ok")

\* ssh.open_sftp (line 143): a failure is raised out of create_sftp_client, before the try
open_sftp(t, fault, h) ==
  IF fault THEN thread_raise(logged(t, "open_sftp", <<>>, "denied"), "SSHException")
  ELSE after_session([logged(t, "open_sftp", <<>>, "ok") EXCEPT !.cwd = h])

OpenSftp ==
  \E i \in DOMAIN tasks : \E fault \in FaultChoice :
    /\ tasks[i].pc = "open_sftp" /\ tasks[i].proto = "sftp"
    /\ Step(i, open_sftp(tasks[i], fault, home), remote, fault)

\* line 159: the path of the segment at hand
sftp_path(t) == IF t.path # <<>> THEN t.path \o <<"/">> \o t.parts[1] ELSE <<"/">> \o t.parts[1]

\* try: sftp.stat(path) (lines 160-161); IOError leads to the except branch
sftp_stat(t, r) ==
  LET path == sftp_path(t)
      loc  == resolve(path, t.cwd)
  IN  IF exists(r, loc)
      THEN loop_next([logged(t, "stat", loc, "ok") EXCEPT !.path = path, !.parts = Tail(@)], r)
      ELSE [logged(t, "stat", loc, "absent") EXCEPT !.pc = "create"]

SftpStat ==
  \E i \in DOMAIN tasks :
    /\ tasks[i].pc = "probe" /\ tasks[i].proto = "sftp"
    /\ Step(i, sftp_stat(tasks[i], remote), remote, FALSE)

\* except IOError: sftp.mkdir(path) (line 163); its own IOError is not caught
sftp_mkdir(t, r, fault) ==
  LET path == sftp_path(t)
      loc  == resolve(path, t.cwd)
  IN  IF fault \/ ~can_mkdir(r, loc)
      THEN try_raise(logged(t, "mkdir", loc, mkdir_answer(r, loc, fault)), "IOError")
      ELSE loop_next([logged(t, "mkdir", loc, "ok") EXCEPT !.path = path, !.parts = Tail(@)],
                     make_dir(r, loc))

sftp_mkdir_remote(t, r, fault) ==
  LET loc == resolve(sftp_path(t), t.cwd)
  IN  IF fault \/ ~can_mkdir(r, loc) THEN r ELSE make_dir(r, loc)

SftpMkdir ==
  \E i \in DOMAIN tasks : \E fault \in FaultChoice :
    /\ tasks[i].pc = "create" /\ tasks[i].proto = "sftp"
    /\ Step(i, sftp_mkdir(tasks[i], remote, fault),
            sftp_mkdir_remote(tasks[i], remote, fault), fault)

\* lines 206-209
remote_file_path(t) ==
  IF t.remote_dir # <<>> THEN t.remote_dir \o <<"/">> \o t.filename
  ELSE <<"/">> \o t.filename

\* sftp.put(local_path, remote_file_path) (line 211)
sftp_put(t, r, files, fault) ==
  LET loc == resolve(remote_file_path(t), t.cwd)
  IN  IF t.local_path \notin files THEN try_raise(t, "FileNotFoundError")
      ELSE IF fault \/ ~can_store(r, loc)
      THEN try_raise(logged(t, "put", loc, store_answer(r, loc, fault)), "IOError")
      ELSE [logged(t, "put", loc, "ok") EXCEPT !.pc = "close"]

sftp_put_remote(t, r, files, fault, data) ==
  LET loc == resolve(remote_file_path(t), t.cwd)
  IN  IF t.local_path \in files /\ ~fault /\ can_store(r, loc)
      THEN store(r, loc, data) ELSE r

SftpPut ==
  \E i \in DOMAIN tasks : \E fault \in FaultChoice :
    /\ tasks[i].pc = "transfer" /\ tasks[i].proto = "sftp"
    /\ Step(i, sftp_put(tasks[i], remote, localFiles, fault),
            sftp_put_remote(tasks[i], remote, localFiles, fault, i),
            fault /\ tasks[i].local_path \in localFiles)

\* finally: sftp.close(); ssh.close() (lines 213-215)
SftpClose ==
  \E i \in DOMAIN tasks :
    /\ tasks[i].pc = "close" /\ tasks[i].proto = "sftp"
    /\ Step(i, finally_close(tasks[i], "close"), remote, FALSE)

(***************************************************************************)
(* The watcher: main, the observers' events and the upload threads.        *)
(***************************************************************************)
ProjectRoots == {<<"/", "proj">>}

RemotePaths == {<<"/", "www">>, <<"www">>, <<"/">>, <<>>}

Protocols == {"ftp", "sftp"}

\* the directory a session starts in: the server's root, or the account's directory
Homes == {<<>>, <<(<<"home">>)>>}

\* the server's tree at start: bare, with /www, with www in the directory the
\* sessions start in, or with a plain file named /www
Trees(h) ==
  LET base == {<<>>, h}
  IN  {[dirs |-> base, files |-> {}],
       [dirs |-> base \cup {<<(<<"www">>)>>}, files |-> {}],
       [dirs |-> base \cup {h \o <<(<<"www">>)>>}, files |-> {}],
       [dirs |-> base, files |-> {[at |-> <<(<<"www">>)>>, data |-> 0]}]}

\* every configuration, followed for one upload: two watched directories
SingleRuns ==
  UNION {{[argv   |-> [project_root |-> pr,
                       files |-> <<(<<"a.js">>), (<<"src", "/", "a.css">>)>>],
           cfg    |-> [remotePath |-> rp, protocol |-> p,
                       transferFiles |-> <<(<<"src", "/", "a.css">>)>>],
           home   |-> h, remote |-> r, limit |-> 1] :
            pr \in ProjectRoots, rp \in RemotePaths, p \in Protocols, r \in Trees(h)} :
         h \in Homes}

\* concurrent uploads of one watched file into a directory chain that is missing
ConcurrentRuns ==
  {[argv   |-> [project_root |-> pr, files |-> <<(<<"src", "/", "a.css">>)>>],
    cfg    |-> [remotePath |-> <<"/", "www">>, protocol |-> p, transferFiles |-> <<>>],
    home   |-> <<>>, remote |-> [dirs |-> {<<>>}, files |-> {}], limit |-> MaxTasks] :
     pr \in ProjectRoots, p \in Protocols}

Init ==
  /\ \E run \in SingleRuns \cup ConcurrentRuns :
       /\ argv = run.argv
       /\ sftp_json = run.cfg
       /\ home = run.home
       /\ remote = run.remote
       /\ limit = run.limit
  /\ cfg = load_ftp_config(sftp_json)
  /\ remote0 = remote
  /\ mainPc = "start"
  /\ handlers = {}
  /\ localFiles = {abspath(os_path_join(argv.project_root, argv.files[i])) :
                     i \in 1..Len(argv.files)}
  /\ tasks = <<>>
  /\ faults = 0
  /\ matched = 0

Next ==
  \/ Main
  \/ FsEvent
  \/ UploadCall
  \/ LocalDelete
  \/ UploadBegin
  \/ FtpConnect
  \/ FtpLogin
  \/ FtpCwdRoot
  \/ FtpProbe
  \/ FtpMkd
  \/ FtpEnter
  \/ FtpStor
  \/ FtpQuit
  \/ SshConnect
  \/ OpenSftp
  \/ SftpStat
  \/ SftpMkdir
  \/ SftpPut
  \/ SftpClose

Spec == Init /\ [][Next]_vars

(***************************************************************************)
(* The watcher started on a range of command lines and configuration       *)
(* files, each run followed for one upload.                                *)
(***************************************************************************)
\* sys.argv[1]: absolute, relative to the working directory, with a trailing "/"
InputRoots == {<<"/", "proj">>, <<"proj">>, <<"/", "proj", "/">>}

\* relative file paths as they are written on the command line or in transferFiles
InputNames == {<<"a.js">>, <<"src", "/", "a.css">>, <<"src", "/", "b.css">>,
               <<"src", "/", "..", "/", "a.js">>}

\* remotePath values: absolute, with a trailing "/", relative, "/" and empty
InputBases == {<<"/", "www">>, <<"/", "www", "/">>, <<"www">>, <<"/">>, <<>>}

\* protocol values a configuration file can hold
InputProtocols == {"ftp", "sftp", "SFTP", "FTP", "ftps"}

InputLists(n) == UNION {[1..k -> InputNames] : k \in 0..n}

\* the server of these runs: sessions start in /home, nothing else is there
InputServer == [home |-> <<(<<"home">>)>>, dirs |-> {<<>>, <<(<<"home">>)>>}]

\* several watched files, named on the command line and in transferFiles
GroupRuns ==
  {[argv |-> [project_root |-> pr, files |-> fs],
    json |-> [remotePath |-> rp, protocol |-> "ftp", transferFiles |-> tf]] :
     pr \in InputRoots, fs \in InputLists(2) \ {<<>>}, tf \in InputLists(1),
     rp \in {<<"/", "www">>, <<>>}}

\* one watched file under every root, remote base path and protocol
PathRuns ==
  {[argv |-> [project_root |-> pr, files |-> <<f>>],
    json |-> [remotePath |-> rp, protocol |-> p]] :
     pr \in InputRoots, f \in InputNames, rp \in InputBases, p \in Protocols}

\* one watched file under every protocol value, and with no protocol in the file
ProtocolRuns ==
  {[argv |-> [project_root |-> <<"/", "proj">>, files |-> <<(<<"a.js">>)>>],
    json |-> [remotePath |-> <<"/", "www">>, protocol |-> p]] : p \in InputProtocols}
  \cup {[argv |-> [project_root |-> <<"/", "proj">>, files |-> <<(<<"a.js">>)>>],
          json |-> [remotePath |-> <<"/", "www">>]]}

InitInputs ==
  /\ \E run \in GroupRuns \cup PathRuns \cup ProtocolRuns :
       /\ argv = run.argv
       /\ sftp_json = run.json
  /\ cfg = load_ftp_config(sftp_json)
  /\ home = InputServer.home
  /\ remote = [dirs |-> InputServer.dirs, files |-> {}]
  /\ remote0 = remote
  /\ limit = 1
  /\ mainPc = "start"
  /\ handlers = {}
  /\ localFiles = {abspath(os_path_join(argv.project_root, argv.files[i])) :
                     i \in 1..Len(argv.files)}
                  \cup {abspath(os_path_join(argv.project_root, cfg.transferFiles[i])) :
                          i \in 1..Len(cfg.transferFiles)}
  /\ tasks = <<>>
  /\ faults = 0
  /\ matched = 0

SpecInputs == InitInputs /\ [][Next]_vars

(***************************************************************************)
(* The two ensurers called on their own: a caller holding a connected      *)
(* client calls ensure_remote_dirs_ftp / ensure_remote_dirs_sftp twice     *)
(* with the same path, and nobody else touches the server.                 *)
(***************************************************************************)
EnsureDirs == {<<>>, <<"/">>, <<"www">>, <<"/", "www", "/", "src">>}

\* the caller: thread 1, connected, about to call the ensurer on remote_dir
ensure_caller(p, remote_dir, h) ==
  [new_thread(<<>>, <<>>, [remotePath |-> <<>>, protocol |-> p, transferFiles |-> <<>>],
              "call")
     EXCEPT !.proto = p, !.remote_dir = remote_dir, !.cwd = h, !.phase = "call",
            !.conn = "open", !.pc = "call"]

InitEnsure ==
  /\ argv = [project_root |-> <<>>, files |-> <<>>]
  /\ sftp_json = [remotePath |-> <<>>]
  /\ cfg = load_ftp_config(sftp_json)
  /\ mainPc = "ensure"
  /\ handlers = {}
  /\ localFiles = {}
  /\ home \in Homes
  /\ remote \in Trees(home)
  /\ remote0 = remote
  /\ \E p \in Protocols : \E d \in EnsureDirs : tasks = <<ensure_caller(p, d, home)>>
  /\ faults = 0
  /\ matched = 0
  /\ limit = 1

\* the call of ensure_remote_dirs_ftp(ftp, remote_dir) / ensure_remote_dirs_sftp(sftp, remote_dir)
EnsureCall ==
  \E i \in DOMAIN tasks :
    /\ tasks[i].pc = "call" /\ tasks[i].calls < 2
    /\ Step(i, ensure_enter(tasks[i], tasks[i].remote_dir, "call",
                            ensure_return(tasks[i], remote)), remote, FALSE)

NextEnsure ==
  \/ EnsureCall
  \/ FtpProbe
  \/ FtpMkd
  \/ FtpEnter
  \/ SftpStat
  \/ SftpMkdir

SpecEnsure == InitEnsure /\ [][NextEnsure]_vars

(***************************************************************************)
(* The two uploaders side by side: upload_file_ftp and then                *)
(* upload_file_sftp are called with the same project root, relative file   *)
(* path and remotePath, each against the server as it was at the start.    *)
(***************************************************************************)
PairNames == {<<"a.js">>, <<"src", "/", "a.css">>}

InitPair ==
  /\ \E f \in PairNames : argv = [project_root |-> <<"/", "proj">>, files |-> <<f>>]
  /\ \E rp \in RemotePaths : sftp_json = [remotePath |-> rp]
  /\ cfg = load_ftp_config(sftp_json)
  /\ mainPc = "pair"
  /\ handlers = {}
  /\ localFiles = {abspath(os_path_join(argv.project_root, argv.files[1]))}
  /\ home \in Homes
  /\ remote \in Trees(home)
  /\ remote0 = remote
  /\ tasks = <<>>
  /\ faults = 0
  /\ matched = 0
  /\ limit = 2

\* upload_file_ftp(project_root, rel_file_path, cfg)
PairFtp ==
  /\ mainPc = "pair" /\ tasks = <<>>
  /\ tasks' = <<new_thread(argv.project_root, argv.files[1],
                           [cfg EXCEPT !.protocol = "ftp"], "pair")>>
  /\ UNCHANGED <<argv, sftp_json, remote0, cfg, mainPc, handlers, localFiles, home, remote,
                 faults, matched, limit>>

\* upload_file_sftp(project_root, rel_file_path, cfg), against a server that is
\* again as it was at the start
PairSftp ==
  /\ mainPc = "pair" /\ Len(tasks) = 1 /\ tasks[1].pc = "done"
  /\ tasks' = Append(tasks, new_thread(argv.project_root, argv.files[1],
                                       [cfg EXCEPT !.protocol = "sftp"], "pair"))
  /\ remote' = remote0
  /\ UNCHANGED <<argv, sftp_json, remote0, cfg, mainPc, handlers, localFiles, home,
                 faults, matched, limit>>

NextPair ==
  \/ PairFtp
  \/ PairSftp
  \/ UploadBegin
  \/ FtpConnect
  \/ FtpLogin
  \/ FtpCwdRoot
  \/ FtpProbe
  \/ FtpMkd
  \/ FtpEnter
  \/ FtpStor
  \/ FtpQuit
  \/ SshConnect
  \/ OpenSftp
  \/ SftpStat
  \/ SftpMkdir
  \/ SftpPut
  \/ SftpClose

SpecPair == InitPair /\ [][NextPair]_vars

(***************************************************************************)
(* Properties.                                                             *)
(***************************************************************************)
Threads == DOMAIN tasks

Ops(t) == DOMAIN t.log

StoreOps == {"stor", "put"}

CreateOps == {"mkd", "mkdir"}

EnsureOps == {"cwd", "cwd_new", "stat", "mkdir"}

\* the local file a thread uploads
LocalFile(t) == abspath(os_path_join(t.project_root, t.rel_file_path))

\* the remote place of a watched file p: remotePath + "/" + relative(p, project root)
MirrorOf(p) ==
  parts_of(cfg.remotePath \o <<"/">> \o replace(relpath(p, argv.project_root), "\\", "/"))

\* C1: an upload started by a file's dispatcher stores the file at
\* remotePath + "/" + relative(p, project root), and the directories of that
\* path exist on the server when the store is issued.
C1_Mirroring ==
  \A i \in Threads : tasks[i].via = "handler" =>
    \A k \in Ops(tasks[i]) : tasks[i].log[k].op \in StoreOps =>
      /\ tasks[i].log[k].at = MirrorOf(LocalFile(tasks[i]))
      /\ tasks[i].log[k].res # "noparent"

\* C2: a thread whose request to create a directory is answered "the directory
\* already exists" (another thread created it after this one found it missing)
\* takes that as success: it is not aborting, it goes on with the next segment
\* or the transfer.
C2_RaceTolerated ==
  \A i \in Threads :
    LET log == tasks[i].log
    IN  (Len(log) > 0 /\ log[Len(log)].op \in CreateOps /\ log[Len(log)].res = "exists")
          => /\ tasks[i].exc = "none"
             /\ tasks[i].pc \in {"probe", "enter", "transfer"}

\* C3: every session an upload thread opened is closed when the thread has ended,
\* so no session is open when no upload is running.
C3_SessionsClosed == \A i \in Threads : tasks[i].pc = "done" => tasks[i].conn # "open"

\* C4: two uploads of the same file started by one handler both succeed under
\* every interleaving when the environment makes nothing fail and the file stays
\* in place, also when the remote directories are missing at the first event;
\* the remote file then holds what one of the two wrote.
C4_BothComplete ==
  \A i \in Threads : \A j \in Threads :
    ( /\ i < j
      /\ tasks[i].via = "handler" /\ tasks[j].via = "handler"
      /\ tasks[i].project_root = tasks[j].project_root
      /\ tasks[i].rel_file_path = tasks[j].rel_file_path
      /\ tasks[i].pc = "done" /\ tasks[j].pc = "done"
      /\ faults = 0
      /\ LocalFile(tasks[i]) \in localFiles )
    => /\ tasks[i].result = "ok" /\ tasks[j].result = "ok"
       /\ \E f \in remote.files :
            f.at = MirrorOf(LocalFile(tasks[i])) /\ f.data \in {i, j}

\* C5: the failure of an upload thread ends that thread only: in the step in
\* which a thread fails, the handlers, main and every other thread stay as they
\* are; a failed thread issues nothing more than the close of its session and is
\* never started again; and once a thread has failed, every further qualifying
\* event still starts one upload.
C5_Containment ==
  [][ /\ \A i \in Threads :
           (tasks[i].exc = "none" /\ tasks'[i].exc # "none") =>
             /\ handlers' = handlers /\ mainPc' = mainPc /\ cfg' = cfg
             /\ matched' = matched
             /\ DOMAIN tasks' = Threads
             /\ \A j \in Threads \ {i} : tasks'[j] = tasks[j]
      /\ \A i \in Threads :
           /\ tasks[i].pc = "done" => tasks'[i] = tasks[i]
           /\ (tasks[i].exc # "none" /\ tasks'[i] # tasks[i]) =>
                /\ tasks[i].pc = "close" /\ tasks'[i].pc = "done"
                /\ tasks'[i].result = "raised" /\ tasks'[i].exc = tasks[i].exc
                /\ Len(tasks'[i].log) = Len(tasks[i].log) + 1
      /\ ((\E i \in Threads : tasks[i].result = "raised") /\ matched' = matched + 1) =>
           /\ Len(tasks') = Len(tasks) + 1
           /\ tasks'[Len(tasks')].via = "handler"
           /\ tasks'[Len(tasks')].pc = "start"
    ]_vars

\* an upload has failed while another one, started by a handler, is under way
C5_Witness ==
  \E i \in Threads : \E j \in Threads :
    /\ i < j
    /\ tasks[i].result = "raised"
    /\ tasks[j].via = "handler" /\ tasks[j].pc = "probe"

\* C6: an upload invoked when its local file does not exist returns normally,
\* without opening a session and without any remote operation: the server's
\* tree is left as it was.
C6_SkipMissing ==
  [][ \A i \in Threads :
        (tasks[i].pc = "start" /\ tasks'[i] # tasks[i]
           /\ LocalFile(tasks[i]) \notin localFiles) =>
          /\ tasks'[i].pc = "done" /\ tasks'[i].result = "skipped"
          /\ tasks'[i].exc = "none" /\ tasks'[i].conn = "none"
          /\ tasks'[i].log = <<>>
          /\ remote' = remote
    ]_vars

\* an upload of a deleted file has been skipped
C6_Witness ==
  \E i \in Threads :
    /\ tasks[i].result = "skipped"
    /\ LocalFile(tasks[i]) \notin localFiles

\* the directories an upload has to ensure: those of its remote directory, taken
\* from the server's root, or from the session's directory when an FTP upload
\* has no base path
Chain(t) ==
  LET segs == parts_of(t.remote_dir)
      base == IF t.proto = "ftp" /\ t.remote_root = <<>> THEN home ELSE <<>>
  IN  {base \o SubSeq(segs, 1, n) : n \in 1..Len(segs)}

\* the directories a thread has found or entered before its k-th operation
EnsuredBefore(t, k) ==
  {t.log[j].at : j \in {n \in 1..(k - 1) : t.log[n].op \in EnsureOps /\ t.log[n].res = "ok"}}

DirOps == {"cwd_root", "cwd", "cwd_new", "mkd", "stat", "mkdir"}

\* C9: the operations of one upload come in the order connect, ensure
\* directories, transfer, disconnect: the first operation is the connect, no
\* directory operation or transfer comes before the session is established,
\* the transfer comes after every directory of the chain has been ensured, and
\* nothing comes after the disconnect.
C9_StepOrder ==
  \A i \in Threads : tasks[i].via \in {"handler", "call"} /\ tasks[i].phase # "call" =>
    LET log == tasks[i].log
    IN  /\ Len(log) > 0 => log[1].op = "connect"
        /\ \A k \in DOMAIN log :
             /\ log[k].op \in DirOps \cup StoreOps =>
                  /\ \E j \in 1..(k - 1) : log[j].op = "connect" /\ log[j].res = "ok"
                  /\ \E j \in 1..(k - 1) : log[j].op = "login" /\ log[j].res = "ok"
                  /\ \A j \in 1..(k - 1) : log[j].op \notin {"quit", "close"}
             /\ log[k].op \in StoreOps =>
                  /\ Chain(tasks[i]) \subseteq EnsuredBefore(tasks[i], k)
                  /\ \A j \in (k + 1)..Len(log) : log[j].op \in {"quit", "close"}
             /\ log[k].op \in {"quit", "close"} => k = Len(log) /\ tasks[i].pc = "done"
        /\ tasks[i].conn = "closed" => tasks[i].pc = "done"

\* an upload has created its sub-directory, stored its file and disconnected
C9_Witness ==
  \E i \in Threads :
    /\ tasks[i].result = "ok" /\ tasks[i].sub_dir # <<>>
    /\ \E k \in Ops(tasks[i]) : tasks[i].log[k].op \in CreateOps /\ tasks[i].log[k].res = "ok"
    /\ \E k \in Ops(tasks[i]) : tasks[i].log[k].op \in StoreOps /\ tasks[i].log[k].res = "ok"

\* C10: a handler starts an upload for an event if and only if the event is a
\* modification or a creation, is no directory event and names one of the
\* handler's target files, and then it starts exactly one: the uploads started
\* by handlers are as many as the qualifying events delivered, and each is the
\* upload of a target file of a handler.
C10_Guard ==
  /\ Cardinality({i \in Threads : tasks[i].via = "handler"}) = matched
  /\ \A i \in Threads : tasks[i].via = "handler" =>
       \E h \in handlers :
         /\ tasks[i].project_root = h.project_root
         /\ tasks[i].cfg = h.cfg
         /\ LocalFile(tasks[i]) \in list_to_set(h.target_paths)

\* two qualifying events have each started one upload
C10_Witness ==
  /\ matched = 2
  /\ Cardinality({i \in Threads : tasks[i].via = "handler"}) = 2

ProbeOps == {"cwd", "stat"}

\* the caller of SpecEnsure, once its first call has returned
Returned(t) == mainPc = "ensure" /\ t.phase = "call" /\ t.calls >= 1

\* the directories the segments of the caller's path name: from the directory
\* the FTP session was in at the call, from the root for SFTP
CallChain(t) ==
  LET segs == parts_of(t.remote_dir)
      base == IF t.proto = "ftp" THEN home ELSE <<>>
  IN  {base \o SubSeq(segs, 1, n) : n \in 1..Len(segs)}

\* C7: when an ensurer returns normally for a path other than "" and "/", every
\* segment of the path is a directory on the server, each segment was probed
\* exactly once, and no segment whose probe succeeded was asked to be created;
\* for "" and "/" no remote operation is issued.
C7_EnsurePost ==
  \A i \in Threads : Returned(tasks[i]) =>
    LET t   == tasks[i]
        log == SubSeq(t.log, 1, t.snap.ops)
    IN  IF t.remote_dir = <<>> \/ t.remote_dir = <<"/">> THEN log = <<>>
        ELSE /\ \A loc \in CallChain(t) :
                  /\ loc \in t.snap.dirs
                  /\ Cardinality({j \in DOMAIN log :
                                    log[j].op \in ProbeOps /\ log[j].at = loc}) = 1
             /\ \A j \in DOMAIN log : \A k \in DOMAIN log :
                  (log[j].op \in ProbeOps /\ log[j].res = "ok" /\ log[k].op \in CreateOps)
                    => log[k].at # log[j].at

\* C8: a second call of an ensurer with the same path on the same client, with
\* nobody else changing the server, raises no error and asks for no directory
\* to be created: the server's directories stay those the first call left.
C8_Idempotent ==
  \A i \in Threads : Returned(tasks[i]) =>
    LET t == tasks[i]
    IN  /\ \A j \in Ops(t) : j > t.snap.ops => t.log[j].op \notin CreateOps
        /\ remote.dirs = t.snap.dirs
        /\ t.result # "raised"

\* some event the observers can deliver is answered, in the state as it is, with
\* the start of an upload thread
CanLaunch ==
  \E h \in handlers : \E event \in events_of(h) :
    Len(dispatch(h, event, tasks)) = Len(tasks) + 1

\* the operations that wait for the server
BlockedPcs == {"connect", "login", "open_sftp", "cwd_root", "probe", "create", "enter",
               "transfer"}

\* C11: the dispatcher answers a matching event by starting a thread and is
\* idle again at once: in the step that handles the event the new thread has
\* issued no operation and holds no session, no remote operation is made, no
\* running upload changes and the watcher keeps watching; and whatever the
\* uploads started earlier are waiting for, the next matching event can be
\* handled and starts another upload.
C11_FireAndForget ==
  /\ [][ (Len(tasks') = Len(tasks) + 1 /\ tasks'[Len(tasks')].via = "handler") =>
           /\ tasks'[Len(tasks')].pc = "start"
           /\ tasks'[Len(tasks')].conn = "none"
           /\ tasks'[Len(tasks')].log = <<>>
           /\ \A i \in Threads : tasks'[i] = tasks[i]
           /\ remote' = remote
           /\ mainPc' = "watching" /\ handlers' = handlers
       ]_vars
  /\ []((mainPc = "watching" /\ Len(tasks) < limit) => CanLaunch)

\* a second upload has been started by a handler while the first one is waiting
\* for the server in the middle of its transfer
C11_Witness ==
  /\ Len(tasks) = 2
  /\ tasks[1].via = "handler" /\ tasks[1].pc \in BlockedPcs /\ Len(tasks[1].log) >= 3
  /\ tasks[2].via = "handler" /\ tasks[2].pc = "start"

\* the input paths of main: the command line's files and the configuration's
\* transferFiles, each joined to the project root
InputPaths ==
  {os_path_join(argv.project_root, argv.files[i]) : i \in 1..Len(argv.files)}
  \cup {os_path_join(argv.project_root, cfg.transferFiles[i]) :
          i \in 1..Len(cfg.transferFiles)}

\* the file an input path names, and the directory that file lies in
FileOf(x) == abspath(x)

DirOf(x) == dirname(abspath(x))

\* the groups whose target list holds the file f
GroupsOf(f) == {h \in handlers : f \in list_to_set(h.target_paths)}

\* C12: once main has built the groups, every input file is in the target
\* list of exactly one group and exactly once there, no group lists a file that
\* is not an input, and two input files are in the same group if and only if
\* they lie in the same directory.
C12_Partition ==
  mainPc = "watching" =>
    /\ \A x \in InputPaths :
         /\ Cardinality(GroupsOf(FileOf(x))) = 1
         /\ \A h \in GroupsOf(FileOf(x)) :
              Cardinality({i \in 1..Len(h.target_paths) :
                             h.target_paths[i] = FileOf(x)}) = 1
    /\ \A h \in handlers :
         list_to_set(h.target_paths) \subseteq {FileOf(x) : x \in InputPaths}
    /\ \A x \in InputPaths : \A y \in InputPaths :
         (GroupsOf(FileOf(x)) = GroupsOf(FileOf(y))) <=> (DirOf(x) = DirOf(y))

\* base joined with the relative path rel, as a path
JoinedPath(base, rel) ==
  IF base = <<>> \/ base[Len(base)] = "/" THEN base \o rel ELSE base \o <<"/">> \o rel

\* C13: the remotePath of a group's configuration is the base remotePath as
\* it is when the group's directory is the project root, and otherwise the
\* base remotePath joined with the path of the group's directory relative to
\* the project root.
C13_EffectivePath ==
  \A h \in handlers :
    h.cfg.remotePath =
      IF abspath(h.watch_dir) = abspath(argv.project_root) THEN cfg.remotePath
      ELSE JoinedPath(cfg.remotePath, relpath(h.watch_dir, argv.project_root))

\* /proj/a.js and /proj/src/a.css are watched: one group with the base path
\* /www, one with /www/src
C13_Witness ==
  /\ cfg.remotePath = <<"/", "www">>
  /\ \E h \in handlers :
       h.project_root = <<"/", "proj">> /\ h.cfg.remotePath = <<"/", "www">>
  /\ \E h \in handlers :
       /\ h.project_root = <<"/", "proj", "/", "src">>
       /\ h.cfg.remotePath = <<"/", "www", "/", "src">>

\* a path with every run of separators written as one "/"
RECURSIVE Squeezed(_)
Squeezed(s) ==
  IF Len(s) < 2 THEN s
  ELSE IF s[1] = "/" /\ s[2] = "/" THEN Squeezed(Tail(s))
  ELSE <<s[1]>> \o Squeezed(Tail(s))

\* the threads that have computed their remote names
Translated(t) == t.pc # "start" /\ t.result # "skipped" /\ t.phase # "call"

\* C14: the remote directory an upload computes has no trailing "/", and
\* directory + "/" + filename is base + "/" + relative(p, r), separators
\* normalised, for the local file p, the root r and the base path the upload
\* was given; uploads given the same three compute the same names.
C14_Translation ==
  /\ \A i \in Threads : Translated(tasks[i]) =>
       LET t   == tasks[i]
           rel == replace(relpath(LocalFile(t), t.project_root), "\\", "/")
       IN  /\ ~endswith(t.remote_dir, <<"/">>)
           /\ Squeezed(t.remote_dir \o <<"/">> \o t.filename)
                = Squeezed(t.cfg.remotePath \o <<"/">> \o rel)
  /\ \A i \in Threads : \A j \in Threads :
       ( /\ Translated(tasks[i]) /\ Translated(tasks[j])
         /\ tasks[i].project_root = tasks[j].project_root
         /\ tasks[i].rel_file_path = tasks[j].rel_file_path
         /\ tasks[i].cfg.remotePath = tasks[j].cfg.remotePath )
       => /\ tasks[i].remote_dir = tasks[j].remote_dir
          /\ tasks[i].filename = tasks[j].filename

FtpPathOps == {"connect", "login", "cwd_root", "cwd", "mkd", "cwd_new", "stor", "quit"}

SftpPathOps == {"connect", "login", "open_sftp", "stat", "mkdir", "put", "close"}

\* the upload path the configuration file asks for
WantedPath ==
  IF "protocol" \in DOMAIN sftp_json /\ sftp_json.protocol \in {"sftp", "SFTP"}
  THEN "sftp" ELSE "ftp"

\* C15: every upload runs one of the two upload paths and only that one: the
\* SFTP path when the protocol value of the configuration file is "sftp" in
\* any case of letters, the FTP path for every other value and when the file
\* has no protocol.
C15_ProtocolDispatch ==
  \A i \in Threads : (tasks[i].pc # "start" /\ tasks[i].phase # "call") =>
    /\ tasks[i].proto = WantedPath
    /\ \A k \in Ops(tasks[i]) :
         tasks[i].log[k].op \in (IF WantedPath = "sftp" THEN SftpPathOps ELSE FtpPathOps)

\* an upload configured with protocol "SFTP" has put its file through SFTP
C15_Witness ==
  /\ "protocol" \in DOMAIN sftp_json /\ sftp_json.protocol = "SFTP"
  /\ \E i \in Threads :
       /\ tasks[i].result = "ok"
       /\ \E k \in Ops(tasks[i]) : tasks[i].log[k].op = "put" /\ tasks[i].log[k].res = "ok"

\* C19: for every group built in main, the directory of the group, which is
\* the handler's root and the directory its observer watches, is the directory
\* in which every file of the group's target list lies.
C19_ParentInvariant ==
  \A h \in handlers : \A i \in 1..Len(h.target_paths) :
    /\ dirname(h.target_paths[i]) = h.project_root
    /\ dirname(h.target_paths[i]) = abspath(h.watch_dir)

\* C16: the loaded configuration is never changed: main's groups get
\* configurations that are the loaded one in every field but remotePath, and
\* no step of the watcher or of an upload changes the loaded configuration,
\* the configuration of a handler or the configuration an upload was started
\* with; an upload started by a handler holds that handler's configuration.
C16_ConfigFrame ==
  /\ [][ /\ cfg' = cfg
         /\ mainPc = "watching" => handlers' = handlers
         /\ \A i \in Threads : i \in DOMAIN tasks' /\ tasks'[i].cfg = tasks[i].cfg
       ]_vars
  /\ [](/\ cfg = load_ftp_config(sftp_json)
        /\ \A h \in handlers :
             /\ DOMAIN h.cfg = DOMAIN cfg
             /\ \A k \in DOMAIN cfg \ {"remotePath"} : h.cfg[k] = cfg[k]
        /\ \A i \in Threads : tasks[i].via = "handler" =>
             \E h \in handlers : tasks[i].cfg = h.cfg)

\* a group with a rebased remotePath exists beside the loaded configuration,
\* and an upload started by its handler has stored its file
C16_Witness ==
  /\ \E h \in handlers : h.cfg.remotePath # cfg.remotePath
  /\ \E i \in Threads :
       /\ tasks[i].via = "handler" /\ tasks[i].result = "ok"
       /\ tasks[i].cfg.remotePath # cfg.remotePath

\* the operations of t before its k-th that found or made a directory
EnsuredAt(t, k) == {j \in 1..(k - 1) : t.log[j].op \in EnsureOps /\ t.log[j].res = "ok"}

\* C17: in every upload that ends well, the directory the file is stored in is
\* the directory the upload ensured last, the end of its chain of segments,
\* and the server's root when the chain is empty.
C17_LandsInEnsured ==
  \A i \in Threads : (tasks[i].result = "ok" /\ tasks[i].phase # "call") =>
    \A k \in Ops(tasks[i]) :
      (tasks[i].log[k].op \in StoreOps /\ tasks[i].log[k].res = "ok") =>
        LET ens == EnsuredAt(tasks[i], k)
            last == CHOOSE j \in ens : \A n \in ens : n <= j
        IN  parent_of(tasks[i].log[k].at) =
              IF ens = {} THEN <<>> ELSE tasks[i].log[last].at

\* the directories an upload has created, and where it has stored its file
CreatedBy(t) ==
  {t.log[k].at : k \in {n \in Ops(t) : t.log[n].op \in CreateOps /\ t.log[n].res = "ok"}}

StoredBy(t) ==
  {t.log[k].at : k \in {n \in Ops(t) : t.log[n].op \in StoreOps /\ t.log[n].res = "ok"}}

\* C18: called with the same project root, relative file path and remotePath
\* on the same tree, with no failure of the environment, upload_file_ftp and
\* upload_file_sftp create the same directories and store the file at the same
\* place.
C18_Equivalence ==
  ( /\ mainPc = "pair" /\ Len(tasks) = 2 /\ faults = 0
    /\ tasks[1].pc = "done" /\ tasks[2].pc = "done" ) =>
    /\ CreatedBy(tasks[1]) = CreatedBy(tasks[2])
    /\ StoredBy(tasks[1]) = StoredBy(tasks[2])
====
